---- MODULE Spec2Model ----
(***************************************************************************)
(* gsbt: the multi-server backup runner (internal/cli/backup.go) and the   *)
(* per-server backup orchestrator (internal/backup/manager.go,             *)
(* internal/backup/archive.go), over a local file system, a wall clock and *)
(* one remote connector per server.                                        *)
(*                                                                         *)
(* Paths are sequences of path components; filepath.Join is \o.  The empty *)
(* string of the Go code is the empty sequence << >>.                      *)
(***************************************************************************)
EXTENDS Integers, Sequences, FiniteSets, TLC

\* ------------------------------------------------------------------ bounds
MaxRuns    == 2     \* invocations of the backup command
MaxTime    == 2     \* wall clock, in half seconds since the first invocation
MaxCalls   == 4     \* calls a free caller makes on one connector
MaxChunks  == 2     \* writes one Download makes through the progressWriter
MaxLen     == 3     \* characters of a path given to the pattern matcher

\* the names of the servers a configuration file can hold
ServerNames == <<"s1", "s2">>

W == 1..Len(ServerNames)

NoPath == <<>>
None   == "none"

\* ---------------------------------------------------------- configuration
\* config.Server with its Connection
Server(i, bl, rp, ty) ==
    [Name |-> ServerNames[i], BackupLocation |-> bl, RemotePath |-> rp, Type |-> ty]

\* servers of a file whose defaults set backup_location: a server that
\* inherits it, one without remote_path, one of an unknown connector type
InheritChoices(i) ==
    { Server(i, NoPath, <<"data">>, "ftp"),
      Server(i, NoPath, NoPath, "ftp"),
      Server(i, NoPath, <<"data">>, "zip") }

\* servers of a file whose defaults set no backup_location: a server that
\* sets its own, and one that sets none
OwnChoices(i) ==
    { Server(i, <<"srv">>, <<"data">>, "sftp"),
      Server(i, NoPath, <<"data">>, "nitrado") }

\* the server lists of a configuration file, of zero to two servers
ServerLists(Choices(_)) ==
    UNION { { s \in [1..n -> UNION { Choices(i) : i \in W }] :
                \A i \in 1..n : s[i] \in Choices(i) } : n \in 0..Len(ServerNames) }

\* config.Config: the configuration files considered
Configs ==
    { [Defaults |-> [BackupLocation |-> <<"bk">>, TempDir |-> td], Servers |-> s] :
        td \in {NoPath, <<"tmp">>}, s \in ServerLists(InheritChoices) }
    \cup
    { [Defaults |-> [BackupLocation |-> NoPath, TempDir |-> NoPath], Servers |-> s] :
        s \in ServerLists(OwnChoices) }

\* --server flag: unset, a configured name, a name that is not configured
ServerFlags == {"", "s1", "zz"}

\* connector.FileInfo values a remote listing can hold
FileA == [Path |-> "a.txt",  Size |-> 10, IsDir |-> FALSE]
FileB == [Path |-> "b.log",  Size |-> 5,  IsDir |-> FALSE]
DirN  == [Path |-> "nested", Size |-> 0,  IsDir |-> TRUE]

\* results of Connector.List
Listings == { <<>>, <<DirN, FileA, FileB>> }

\* ------------------------------------------------------------------ state
VARIABLES
    cfg,              \* the loaded configuration: [Defaults, Servers]
    backupSequential, \* --sequential
    backupServer,     \* --server
    runs,             \* invocations of runBackup started so far
    pcMain,           \* position of runBackup
    servers,          \* runBackup: the selected servers
    next,             \* runBackup: loop index of the dispatch loop
    wg,               \* sync.WaitGroup counter
    results,          \* buffered channel of results
    closed,           \* the channel has been closed
    successes,
    failures,
    retErr,           \* the error runBackup returned
    pc,               \* per server task: position in runOne / Manager.Backup
    res,              \* per server task: the result runOne returned
    mgr,              \* per server task: backup.Manager{BackupLocation, TempDir}
    tempDir,          \* Manager.Backup: the staging directory
    conn,             \* per server connector: calls made on it
    files,            \* Manager.Backup: what List returned
    idx,              \* Manager.Backup: index of the download loop
    downloaded,       \* paths this run has downloaded without error
    stats,            \* Manager.Backup: Stats
    bret,             \* what Manager.Backup returns: [path, err]
    arch,             \* CreateArchive of this run: [calls, path, created, clobbered, entries]
    attempts,         \* per server: calls of runOne in this invocation
    now,              \* wall clock
    staging,          \* staging entries on disk: [dir, name, isDir, archived]
    archives,         \* paths of the finished archives on disk
    \* one connector under its caller
    kind,             \* the connector variant NewConnector built
    kcfg,             \* connector.Config, as far as the variant reads it
    h,                \* the connector's handles: [conn, delegate, ssh, sftp]
    ctxDone,          \* the context passed to the connector is cancelled
    call,             \* the call on the connector in flight, or the last one
    run,              \* the caller: Manager.Backup, or any sequence of calls
    \* the loggers of concurrent server tasks
    lcfg,             \* the flags of the root logger: [format, quiet, verbose]
    lmu,              \* per Logger: the task that holds its mutex, or 0
    lpc,              \* per server task: position in its current log call
    lcb,              \* per server task: index of its current progress callback
    writing,          \* <<stream, task>>: a write to the stream is under way
    \* one Manager.Backup with its progress reporter
    progress,         \* Manager.Progress is set
    bpc,              \* position in Manager.Backup
    bfiles,           \* what List returned
    bidx,             \* index of the download loop
    pwn,              \* progressWriter.n of the file being downloaded
    staged,           \* the files this run created in staging: [Path, bytes, writes, done]
    calls,            \* the calls made on the reporter, in order: [op, path, n]
    bstats,           \* Stats
    berr,             \* the error Backup returned
    \* one call of the pattern matcher
    mPath,            \* path
    mInclude,         \* include
    mExclude,         \* exclude
    mResult,          \* [done, value]: what MatchesPatterns returned
    \* one List of a connector over a remote tree
    lscfg,            \* connector.Config: [Type, RemotePath, Include, Exclude]
    remote,           \* the remote tree below the root: a sequence of entries
    listing           \* [done, files, err]: what List returned

runnerVars == <<cfg, backupSequential, backupServer, runs, pcMain, servers, next,
                wg, results, closed, successes, failures, retErr>>
taskVars   == <<pc, res, mgr, tempDir, conn, files, idx, downloaded, stats, bret, arch,
                attempts>>
envVars    == <<now, staging, archives>>
mainVars   == <<runnerVars, taskVars, envVars>>
connVars   == <<kind, kcfg, h, ctxDone, call, run>>
logVars    == <<lcfg, lmu, lpc, lcb, writing>>
progVars   == <<progress, bpc, bfiles, bidx, pwn, staged, calls, bstats, berr>>
matchVars  == <<mPath, mInclude, mExclude, mResult>>
listVars   == <<lscfg, remote, listing>>
restVars   == <<progVars, matchVars, listVars>>
auxVars    == <<connVars, logVars, restVars>>
vars       == <<mainVars, connVars, logVars, restVars>>

\* ---------------------------------------------------------------- helpers
Join(a, b) == a \o b

\* config.Server.GetBackupLocation
GetBackupLocation(s, defaults) ==
    IF s.BackupLocation # NoPath THEN s.BackupLocation
    ELSE IF defaults.BackupLocation = NoPath THEN NoPath
    ELSE IF s.Name = "" THEN defaults.BackupLocation
    ELSE Join(defaults.BackupLocation, <<s.Name>>)

\* a conversion that does not look at remote_path
toConnectorConfigUnchecked(s, defaults) ==
    [cfg |-> [Type |-> s.Type, RemotePath |-> s.RemotePath], err |-> None]

\* cli.toConnectorConfig: the connector configuration, or the missing
\* remote_path error
toConnectorConfig(s, defaults) ==
    [cfg |-> [Type |-> s.Type, RemotePath |-> s.RemotePath],
     err |-> IF s.RemotePath = NoPath THEN "config" ELSE None]

\* connector.NewConnector: one of the three variants, or an error
NewConnector(c) ==
    IF c.Type \in {"ftp", "sftp", "nitrado"} THEN None ELSE "init"

\* runBackup: the --server filter
SelectServers(all, flag) ==
    IF flag = "" THEN all ELSE SelectSeq(all, LAMBDA s : s.Name = flag)

\* backup.TimestampedFilename: the UTC time formatted to whole seconds
TimestampedFilename(t) == <<t \div 2>>

\* a connector as NewConnector returns it: no session, no call made yet
FreshConn == [connected |-> FALSE, connectCalls |-> 0, connectOk |-> FALSE,
              listCalls |-> 0, listOk |-> FALSE, downloadCalls |-> 0, closeCalls |-> 0]
FreshArch == [calls |-> 0, path |-> NoPath, created |-> FALSE, clobbered |-> FALSE,
              entries |-> {}]
FreshRet  == [path |-> NoPath, err |-> None]
FreshRes  == [success |-> FALSE, err |-> None]
FreshStats == [Files |-> 0, Bytes |-> 0]

N == Len(servers)
Parallel == ~(backupSequential \/ N = 1)


\* runOne's result for what Manager.Backup returned (backup.go:108-123)
ResultOf(b) == [success |-> b.err = None, err |-> IF b.err # None THEN "backup" ELSE None]

\* a return of Manager.Backup before `defer conn.Close()` is registered
ReturnEarly(w, e) ==
    /\ bret' = [bret EXCEPT ![w] = [path |-> NoPath, err |-> e]]
    /\ res'  = [res EXCEPT ![w] = ResultOf([path |-> NoPath, err |-> e])]
    /\ pc'   = [pc EXCEPT ![w] = "ret"]

\* a return of Manager.Backup after `defer conn.Close()`: Close runs first
ReturnDeferred(w, p, e) ==
    /\ bret' = [bret EXCEPT ![w] = [path |-> p, err |-> e]]
    /\ pc'   = [pc EXCEPT ![w] = "close"]
    /\ res'  = res

\* os.Create / os.MkdirAll on the staging tree: the entry of that name is
\* replaced by the one this run writes
Stage(st, d, f) ==
    { e \in st : ~(e.dir = d /\ e.name = f.Path) }
        \cup { [dir |-> d, name |-> f.Path, isDir |-> f.IsDir, archived |-> FALSE] }

\* os.Create(destPath): a file at p is truncated, so a finished archive
\* that was there is gone
Truncated(ar, p) == ar \ {p}

\* CreateArchive returned nil: the file at p is a finished archive
Written(ar, p) == ar \cup {p}

\* the entries below d have gone into a finished archive; nothing removes them
Archived(st, d) == { IF e.dir = d THEN [e EXCEPT !.archived = TRUE] ELSE e : e \in st }

\* filepath.Walk(srcDir): every entry below srcDir, the root itself skipped
WalkEntries(st, d) == { [name |-> e.name, isDir |-> e.isDir] : e \in { x \in st : x.dir = d } }

\* ------------------------------------------------- connectors: values
\* the Type values NewConnector accepts
Kinds == {"ftp", "sftp", "nitrado"}

\* retry_attempts values of a configuration
Retries == {0, 3}

\* what key_file can name: nothing (it is unset), a private key, a file that
\* cannot be read, a file that is no private key
KeyFiles == {"", "key", "unreadable", "unparsable"}

\* connector.Config: whether api_key, service_id and password are set, what
\* key_file names, and retry_attempts
KConfigs(k) ==
    { [APIKey |-> a, ServiceID |-> b, KeyFile |-> f, Password |-> c, RetryAttempts |-> r] :
        a \in (IF k = "nitrado" THEN BOOLEAN ELSE {FALSE}),
        b \in (IF k = "nitrado" THEN BOOLEAN ELSE {FALSE}),
        f \in (IF k = "sftp" THEN KeyFiles ELSE {""}),
        c \in (IF k = "sftp" THEN BOOLEAN ELSE {TRUE}),
        r \in Retries }

\* a nil error, and an error as the parts of its message
NoErr == <<>>
NotConnectedErr == <<"not connected">>
NetErr == <<"network">>
Panic == <<"panic: nil pointer dereference">>

\* a connector as its constructor returns it: every handle nil
FreshHandles == [conn |-> "nil", delegate |-> FALSE, ssh |-> "nil", sftp |-> "nil"]

\* an answer of the Nitrado API: status code, Retry-After header, the status
\* field of the body; the empty status is a transport error of client.Do
Answer(st, ra, body) == [status |-> st, retryAfter |-> ra, body |-> body]
TransportError == Answer("", "", "")
NoResp == Answer("none", "", "")
HttpAnswers ==
    { Answer("200", "", "success"), Answer("200", "", "error"),
      Answer("200", "", "garbage"), Answer("429", "30", ""), Answer("429", "", ""),
      Answer("500", "", "") }

\* no call made yet
NoCall == [name |-> None, phase |-> "none", err |-> NoErr, cancelled |-> FALSE,
           net |-> 0, http |-> 0, rerel |-> 0, fresh |-> TRUE, unset |-> TRUE,
           closedBefore |-> FALSE, resp |-> NoResp, auth |-> <<>>]

\* the files Manager.Backup downloads in a run over one connector
KFiles == <<"a.txt", "b.log">>

\* a caller of the given mode before its first call
FreshRun(m) == [mode |-> m, pc |-> "connect", idx |-> 1, archive |-> FALSE,
                connects |-> 0, calls |-> 0, dl |-> [i \in 1..Len(KFiles) |-> 0]]

\* the connector part of the state while no connector is looked at
ConnIdle ==
    /\ kind = "ftp"
    /\ kcfg = [APIKey |-> FALSE, ServiceID |-> FALSE, KeyFile |-> "", Password |-> TRUE,
               RetryAttempts |-> 0]
    /\ h = FreshHandles
    /\ ctxDone = FALSE
    /\ call = NoCall
    /\ run = FreshRun("off")

\* the logger part of the state while no logger is looked at
LogIdle ==
    /\ lcfg = [format |-> "text", quiet |-> FALSE, verbose |-> FALSE]
    /\ lmu = [w \in W |-> 0]
    /\ lpc = [w \in W |-> "off"]
    /\ lcb = [w \in W |-> 1]
    /\ writing = {}

\* Manager.Backup before its first step: nothing listed, staged or reported
FreshBackup ==
    /\ bpc = "connect"
    /\ bfiles = <<>>
    /\ bidx = 1
    /\ pwn = 0
    /\ staged = <<>>
    /\ calls = <<>>
    /\ bstats = FreshStats
    /\ berr = None

\* the reporter part of the state while no reporter is looked at
ProgIdle ==
    /\ progress = FALSE
    /\ bpc = "off"
    /\ bfiles = <<>>
    /\ bidx = 1
    /\ pwn = 0
    /\ staged = <<>>
    /\ calls = <<>>
    /\ bstats = FreshStats
    /\ berr = None

\* no result yet
NoResult == [done |-> FALSE, value |-> FALSE]

\* the matcher part of the state while no call of it is looked at
MatchIdle ==
    /\ mPath = <<>>
    /\ mInclude = <<>>
    /\ mExclude = <<>>
    /\ mResult = NoResult

\* List has not returned yet
NoListing == [done |-> FALSE, files |-> <<>>, err |-> NoErr]

\* the listing part of the state while no List is looked at
ListIdle ==
    /\ lscfg = [Type |-> "ftp", RemotePath |-> <<>>, Include |-> <<>>, Exclude |-> <<>>]
    /\ remote = <<>>
    /\ listing = NoListing

RestIdle == ProgIdle /\ MatchIdle /\ ListIdle

\* ------------------------------------------------------------------- Init
\* the runner before the first invocation of the command
MainInit ==
    /\ cfg \in Configs
    /\ backupSequential \in BOOLEAN
    /\ backupServer \in ServerFlags
    /\ runs = 0
    /\ pcMain = "idle"
    /\ servers = <<>>
    /\ next = 1
    /\ wg = 0
    /\ results = <<>>
    /\ closed = FALSE
    /\ successes = 0
    /\ failures = 0
    /\ retErr = None
    /\ pc = [w \in W |-> "idle"]
    /\ res = [w \in W |-> FreshRes]
    /\ mgr = [w \in W |-> [BackupLocation |-> NoPath, TempDir |-> NoPath]]
    /\ tempDir = [w \in W |-> NoPath]
    /\ conn = [w \in W |-> FreshConn]
    /\ files = [w \in W |-> <<>>]
    /\ idx = [w \in W |-> 1]
    /\ downloaded = [w \in W |-> {}]
    /\ stats = [w \in W |-> FreshStats]
    /\ bret = [w \in W |-> FreshRet]
    /\ arch = [w \in W |-> FreshArch]
    /\ attempts = [w \in W |-> 0]
    /\ now = 0
    /\ staging = {}
    /\ archives = {}

Init == MainInit /\ ConnIdle /\ LogIdle /\ RestIdle

\* ----------------------------------------------------------- the runner
\* a runner that goes parallel whenever there are two servers or more
ModeIgnoresFlag(seq, n) == IF n = 1 THEN "seq" ELSE "spawn"

\* runBackup, lines 126 and 135: which of the two loops runs
Mode(seq, n) == IF seq \/ n = 1 THEN "seq" ELSE "spawn"

\* runBackup, lines 42-78: a new invocation of the command; the file system
\* and the clock are what earlier invocations left
RunBackup ==
    /\ pcMain \in {"idle", "returned"}
    /\ runs < MaxRuns
    /\ runs' = runs + 1
    /\ pc' = [w \in W |-> "idle"]
    /\ res' = [w \in W |-> FreshRes]
    /\ mgr' = [w \in W |-> [BackupLocation |-> NoPath, TempDir |-> NoPath]]
    /\ tempDir' = [w \in W |-> NoPath]
    /\ conn' = [w \in W |-> FreshConn]
    /\ files' = [w \in W |-> <<>>]
    /\ idx' = [w \in W |-> 1]
    /\ downloaded' = [w \in W |-> {}]
    /\ stats' = [w \in W |-> FreshStats]
    /\ bret' = [w \in W |-> FreshRet]
    /\ arch' = [w \in W |-> FreshArch]
    /\ attempts' = [w \in W |-> 0]
    /\ wg' = 0
    /\ results' = <<>>
    /\ closed' = FALSE
    /\ successes' = 0
    /\ failures' = 0
    /\ next' = 1
    /\ LET sel == SelectServers(cfg.Servers, backupServer) IN
         IF backupServer # "" /\ Len(sel) = 0
         THEN /\ servers' = <<>>
              /\ retErr' = "server not found"
              /\ pcMain' = "returned"
         ELSE IF Len(sel) = 0
         THEN /\ servers' = <<>>
              /\ retErr' = "no servers configured"
              /\ pcMain' = "returned"
         ELSE /\ servers' = sel
              /\ retErr' = None
              /\ pcMain' = Mode(backupSequential, Len(sel))
    /\ UNCHANGED auxVars
    /\ UNCHANGED <<cfg, backupSequential, backupServer, envVars>>

\* runOne has returned: its locals (the connector, the Manager and what
\* Backup held) are gone
Forget(w) ==
    /\ mgr' = [mgr EXCEPT ![w] = [BackupLocation |-> NoPath, TempDir |-> NoPath]]
    /\ conn' = [conn EXCEPT ![w] = FreshConn]
    /\ files' = [files EXCEPT ![w] = <<>>]
    /\ idx' = [idx EXCEPT ![w] = 1]
    /\ downloaded' = [downloaded EXCEPT ![w] = {}]
    /\ stats' = [stats EXCEPT ![w] = FreshStats]
    /\ bret' = [bret EXCEPT ![w] = FreshRet]
    /\ arch' = [arch EXCEPT ![w] = FreshArch]

\* the tally of one result (lines 129-133 and 151-155)
TallySuccesses(r) == IF r.success THEN successes + 1 ELSE successes
TallyFailures(r)  == IF r.success THEN failures ELSE failures + 1

\* a sequential loop that stops at the first failed server
SeqAdvanceBreak(r) == IF r.success THEN next + 1 ELSE N + 1

\* the loop index after one server of the sequential loop (line 127)
SeqAdvance(r) == next + 1

\* sequential mode, line 128: the loop calls runOne for the next server
SeqCall ==
    /\ pcMain = "seq"
    /\ next <= N
    /\ pc[next] = "idle"
    /\ pc' = [pc EXCEPT ![next] = "start"]
    /\ attempts' = [attempts EXCEPT ![next] = @ + 1]
    /\ UNCHANGED auxVars
    /\ UNCHANGED <<runnerVars, res, mgr, tempDir, conn, files, idx, downloaded,
                   stats, bret, arch, envVars>>

\* sequential mode, lines 128-133: runOne has returned, its result is tallied
SeqTally ==
    /\ pcMain = "seq"
    /\ next <= N
    /\ pc[next] = "ret"
    /\ successes' = TallySuccesses(res[next])
    /\ failures' = TallyFailures(res[next])
    /\ next' = SeqAdvance(res[next])
    /\ pc' = [pc EXCEPT ![next] = "exited"]
    /\ Forget(next)
    /\ UNCHANGED auxVars
    /\ UNCHANGED <<cfg, backupSequential, backupServer, runs, pcMain, servers, wg,
                   results, closed, retErr, res, tempDir, attempts, envVars>>

\* parallel mode, lines 139-146: wg.Add(1) and the go statement for one server
Spawn ==
    /\ pcMain = "spawn"
    /\ next <= N
    /\ wg' = wg + 1
    /\ pc' = [pc EXCEPT ![next] = "start"]
    /\ attempts' = [attempts EXCEPT ![next] = @ + 1]
    /\ next' = next + 1
    /\ UNCHANGED auxVars
    /\ UNCHANGED <<cfg, backupSequential, backupServer, runs, pcMain, servers,
                   results, closed, successes, failures, retErr, res, mgr, tempDir,
                   conn, files, idx, downloaded, stats, bret, arch, envVars>>

\* a channel of one slot
CapacityOne(n) == 1

\* line 137: make(chan result, len(servers))
Capacity(n) == n

\* parallel mode, line 144: the task sends its result; the channel has one
\* slot per server
Send(w) ==
    /\ pcMain = "spawn"
    /\ pc[w] = "ret"
    /\ Len(results) < Capacity(N)
    /\ results' = Append(results, res[w])
    /\ pc' = [pc EXCEPT ![w] = "sent"]
    /\ Forget(w)
    /\ UNCHANGED auxVars
    /\ UNCHANGED <<cfg, backupSequential, backupServer, runs, pcMain, servers, next,
                   wg, closed, successes, failures, retErr, res, tempDir, attempts,
                   envVars>>

\* parallel mode, line 143: the deferred wg.Done()
WgDone(w) ==
    /\ pc[w] = "sent"
    /\ wg' = wg - 1
    /\ pc' = [pc EXCEPT ![w] = "exited"]
    /\ UNCHANGED auxVars
    /\ UNCHANGED <<cfg, backupSequential, backupServer, runs, pcMain, servers, next,
                   results, closed, successes, failures, retErr, res, mgr, tempDir,
                   conn, files, idx, downloaded, stats, bret, arch, attempts, envVars>>

\* a wait that does not wait
WaitReturnsAtOnce(g) == TRUE

\* sync.WaitGroup.Wait (line 148) returns when the counter is zero
WaitReturns(g) == g = 0

\* parallel mode, lines 148-149: wg.Wait() returns, the channel is closed
WaitClose ==
    /\ pcMain = "spawn"
    /\ next > N
    /\ WaitReturns(wg)
    /\ closed' = TRUE
    /\ pcMain' = "tally"
    /\ UNCHANGED auxVars
    /\ UNCHANGED <<cfg, backupSequential, backupServer, runs, servers, next, wg,
                   results, successes, failures, retErr, taskVars, envVars>>

\* parallel mode, lines 150-156: one iteration of the range over the channel
Tally ==
    /\ pcMain = "tally"
    /\ results # <<>>
    /\ successes' = TallySuccesses(Head(results))
    /\ failures' = TallyFailures(Head(results))
    /\ results' = Tail(results)
    /\ UNCHANGED auxVars
    /\ UNCHANGED <<cfg, backupSequential, backupServer, runs, pcMain, servers, next,
                   wg, closed, retErr, taskVars, envVars>>

\* an aggregate error only when no server succeeded
AggregateErrorTotal(s, f) ==
    IF f > 0 /\ s = 0 THEN "backup complete with failures" ELSE None

\* lines 159-165: the aggregate error
AggregateError(s, f) == IF f > 0 THEN "backup complete with failures" ELSE None

\* cli.Execute (root.go): the exit status of the process for what the
\* command returned
ExitCode(e) == IF e # None THEN 1 ELSE 0

\* lines 159-165: both loops are over, runBackup returns
Finish ==
    /\ \/ pcMain = "seq" /\ next > N
       \/ pcMain = "tally" /\ results = <<>> /\ closed
    /\ retErr' = AggregateError(successes, failures)
    /\ pcMain' = "returned"
    /\ UNCHANGED auxVars
    /\ UNCHANGED <<cfg, backupSequential, backupServer, runs, servers, next, wg,
                   results, closed, successes, failures, taskVars, envVars>>


\* ----------------------------------------------- runOne and Manager.Backup
\* runOne, lines 85-105: the connector configuration, the connector and the
\* Manager of one server; a configuration or factory error is the result
RunOneStart(w) ==
    /\ pc[w] = "start"
    /\ LET srv == servers[w]
           cc  == toConnectorConfig(srv, cfg.Defaults)
       IN  IF cc.err # None
           THEN /\ res' = [res EXCEPT ![w] = [success |-> FALSE, err |-> cc.err]]
                /\ pc' = [pc EXCEPT ![w] = "ret"]
                /\ mgr' = mgr
           ELSE IF NewConnector(cc.cfg) # None
           THEN /\ res' = [res EXCEPT ![w] = [success |-> FALSE, err |-> NewConnector(cc.cfg)]]
                /\ pc' = [pc EXCEPT ![w] = "ret"]
                /\ mgr' = mgr
           ELSE /\ mgr' = [mgr EXCEPT ![w] =
                            [BackupLocation |-> GetBackupLocation(srv, cfg.Defaults),
                             TempDir |-> cfg.Defaults.TempDir]]
                /\ pc' = [pc EXCEPT ![w] = "backup"]
                /\ res' = res
    /\ UNCHANGED auxVars
    /\ UNCHANGED <<runnerVars, tempDir, conn, files, idx, downloaded, stats, bret,
                   arch, attempts, envVars>>

\* Manager.Backup, lines 43-46: the staging directory of a run
StagingDir(m) ==
    IF m.TempDir = NoPath THEN Join(m.BackupLocation, <<".tmp">>) ELSE m.TempDir

\* Manager.Backup, lines 35-50: the guards and the staging directory
BackupBegin(w) ==
    /\ pc[w] = "backup"
    /\ \/ /\ mgr[w].BackupLocation = NoPath
          /\ ReturnEarly(w, "backup location is required")
          /\ tempDir' = tempDir
       \/ /\ mgr[w].BackupLocation # NoPath
          /\ tempDir' = [tempDir EXCEPT ![w] = StagingDir(mgr[w])]
          /\ \/ /\ pc' = [pc EXCEPT ![w] = "connect"]     \* os.MkdirAll succeeded
                /\ UNCHANGED <<bret, res>>
             \/ ReturnEarly(w, "create temp dir")
    /\ UNCHANGED auxVars
    /\ UNCHANGED <<runnerVars, mgr, conn, files, idx, downloaded, stats, arch,
                   attempts, envVars>>

\* a failed Connect that is ignored: Backup goes on to List
ConnectFailedIgnored(w) ==
    /\ pc' = [pc EXCEPT ![w] = "list"]
    /\ UNCHANGED <<bret, res>>

\* Manager.Backup, lines 52-54: what a failed Connect leads to
ConnectFailed(w) == ReturnEarly(w, "connect")

\* Manager.Backup, lines 52-55: Connect; on success Close is deferred
Connect(w) ==
    /\ pc[w] = "connect"
    /\ \/ /\ conn' = [conn EXCEPT ![w].connectCalls = @ + 1, ![w].connectOk = TRUE,
                                  ![w].connected = TRUE]
          /\ pc' = [pc EXCEPT ![w] = "list"]
          /\ UNCHANGED <<bret, res>>
       \/ /\ conn' = [conn EXCEPT ![w].connectCalls = @ + 1]
          /\ ConnectFailed(w)
    /\ UNCHANGED auxVars
    /\ UNCHANGED <<runnerVars, mgr, tempDir, files, idx, downloaded, stats, arch,
                   attempts, envVars>>

RECURSIVE CountStats(_, _)
\* Manager.Backup, lines 63-70: files and bytes of the non-directory entries
CountStats(l, acc) ==
    IF l = <<>> THEN acc
    ELSE CountStats(Tail(l),
                    IF Head(l).IsDir THEN acc
                    ELSE [Files |-> acc.Files + 1, Bytes |-> acc.Bytes + Head(l).Size])

\* a failed List that returns as if Close had not been deferred yet
ListFailedNoClose(w) == ReturnEarly(w, "list")

\* Manager.Backup, lines 58-61: what a failed List leads to
ListFailed(w) == ReturnDeferred(w, NoPath, "list")

\* Manager.Backup, lines 57-73: List and the totals
List(w) ==
    /\ pc[w] = "list"
    /\ \/ \E l \in Listings :
            /\ conn' = [conn EXCEPT ![w].listCalls = @ + 1, ![w].listOk = TRUE]
            /\ files' = [files EXCEPT ![w] = l]
            /\ stats' = [stats EXCEPT ![w] = CountStats(l, FreshStats)]
            /\ idx' = [idx EXCEPT ![w] = 1]
            /\ pc' = [pc EXCEPT ![w] = "loop"]
            /\ UNCHANGED <<bret, res>>
       \/ /\ conn' = [conn EXCEPT ![w].listCalls = @ + 1]
          /\ ListFailed(w)
          /\ UNCHANGED <<files, stats, idx>>
    /\ UNCHANGED auxVars
    /\ UNCHANGED <<runnerVars, mgr, tempDir, downloaded, arch, attempts, envVars>>

\* Manager.Backup, lines 76-95: one entry of the listing: a directory is
\* created and skipped, a file is created in the staging directory
FileBegin(w) ==
    /\ pc[w] = "loop"
    /\ idx[w] <= Len(files[w])
    /\ LET f == files[w][idx[w]] IN
         \/ /\ f.IsDir
            /\ staging' = Stage(staging, tempDir[w], f)
            /\ idx' = [idx EXCEPT ![w] = @ + 1]
            /\ UNCHANGED <<pc, bret, res>>
         \/ /\ ~f.IsDir
            /\ staging' = Stage(staging, tempDir[w], f)
            /\ pc' = [pc EXCEPT ![w] = "download"]
            /\ UNCHANGED <<idx, bret, res>>
         \/ /\ ~f.IsDir
            /\ ReturnDeferred(w, NoPath, "mkdir")
            /\ UNCHANGED <<staging, idx>>
         \/ /\ ~f.IsDir
            /\ ReturnDeferred(w, NoPath, "create")
            /\ UNCHANGED <<staging, idx>>
    /\ UNCHANGED auxVars
    /\ UNCHANGED <<runnerVars, mgr, tempDir, conn, files, downloaded, stats, arch,
                   attempts, now, archives>>

\* a failed Download that is skipped: the loop goes on with the next entry
DownloadFailedSkip(w) ==
    /\ idx' = [idx EXCEPT ![w] = @ + 1]
    /\ pc' = [pc EXCEPT ![w] = "loop"]
    /\ UNCHANGED <<bret, res, downloaded>>

\* Manager.Backup, lines 104-107: what a failed Download leads to
DownloadFailed(w) ==
    /\ ReturnDeferred(w, NoPath, "download")
    /\ UNCHANGED <<idx, downloaded>>

\* Manager.Backup, lines 97-113: the download of the current file
Download(w) ==
    /\ pc[w] = "download"
    /\ conn' = [conn EXCEPT ![w].downloadCalls = @ + 1]
    /\ \/ /\ downloaded' = [downloaded EXCEPT ![w] = @ \cup {files[w][idx[w]].Path}]
          /\ idx' = [idx EXCEPT ![w] = @ + 1]
          /\ pc' = [pc EXCEPT ![w] = "loop"]
          /\ UNCHANGED <<bret, res>>
       \/ DownloadFailed(w)
    /\ UNCHANGED auxVars
    /\ UNCHANGED <<runnerVars, mgr, tempDir, files, stats, arch, attempts, envVars>>

\* a failed MkdirAll of the backup directory that is only noted: Backup
\* goes on to the archive
BackupDirFailedGoesOn(w) ==
    /\ bret' = [bret EXCEPT ![w] = [path |-> NoPath, err |-> "create backup dir"]]
    /\ pc' = [pc EXCEPT ![w] = "archive"]
    /\ res' = res

\* Manager.Backup, lines 121-123: what a failed MkdirAll of the backup
\* directory leads to
BackupDirFailed(w) == ReturnDeferred(w, NoPath, "create backup dir")

\* Manager.Backup, lines 115-123: the loop is over; the backup directory
LoopEnd(w) ==
    /\ pc[w] = "loop"
    /\ idx[w] > Len(files[w])
    /\ \/ /\ pc' = [pc EXCEPT ![w] = "archive"]
          /\ UNCHANGED <<bret, res>>
       \/ BackupDirFailed(w)
    /\ UNCHANGED auxVars
    /\ UNCHANGED <<runnerVars, mgr, tempDir, conn, files, idx, downloaded, stats,
                   arch, attempts, envVars>>

\* Manager.Backup, line 125: the path of the archive of a run
ArchivePath(m, t) == Join(m.BackupLocation, TimestampedFilename(t))

\* Manager.Backup, line 125 and CreateArchive, lines 16-39: time.Now() is
\* read, and the archive file is created (or truncated) at the timestamped path
ArchiveOpen(w) ==
    /\ pc[w] = "archive"
    /\ \E t \in now..MaxTime :
         /\ now' = t
         /\ LET p == ArchivePath(mgr[w], t) IN
              \/ /\ arch' = [arch EXCEPT ![w] = [calls |-> @.calls + 1, path |-> p,
                                                 created |-> TRUE,
                                                 clobbered |-> p \in archives,
                                                 entries |-> {}]]
                 /\ archives' = Truncated(archives, p)
                 /\ pc' = [pc EXCEPT ![w] = "walk"]
                 /\ UNCHANGED <<bret, res>>
              \/ /\ arch' = [arch EXCEPT ![w] = [calls |-> @.calls + 1, path |-> p,
                                                 created |-> FALSE, clobbered |-> FALSE,
                                                 entries |-> {}]]
                 /\ ReturnDeferred(w, NoPath, "create archive")
                 /\ UNCHANGED archives
    /\ UNCHANGED auxVars
    /\ UNCHANGED <<runnerVars, mgr, tempDir, conn, files, idx, downloaded, stats,
                   attempts, staging>>

\* CreateArchive, lines 42-80: the walk over the staging directory writes
\* one entry per file and directory found there
ArchiveWalk(w) ==
    /\ pc[w] = "walk"
    /\ \/ /\ arch' = [arch EXCEPT ![w].entries = WalkEntries(staging, tempDir[w])]
          /\ archives' = Written(archives, arch[w].path)
          /\ staging' = Archived(staging, tempDir[w])
          /\ ReturnDeferred(w, arch[w].path, None)
       \/ /\ ReturnDeferred(w, NoPath, "create archive")
          /\ UNCHANGED <<arch, archives, staging>>
    /\ UNCHANGED auxVars
    /\ UNCHANGED <<runnerVars, mgr, tempDir, conn, files, idx, downloaded, stats,
                   attempts, now>>

\* Manager.Backup, line 55: the deferred conn.Close(), then Backup returns
\* and runOne turns what it returned into its result (backup.go:108-123)
Close(w) ==
    /\ pc[w] = "close"
    /\ conn' = [conn EXCEPT ![w].closeCalls = @ + 1, ![w].connected = FALSE]
    /\ res' = [res EXCEPT ![w] = ResultOf(bret[w])]
    /\ pc' = [pc EXCEPT ![w] = "ret"]
    /\ UNCHANGED auxVars
    /\ UNCHANGED <<runnerVars, mgr, tempDir, files, idx, downloaded, stats, bret,
                   arch, attempts, envVars>>

Next ==
    \/ RunBackup
    \/ SeqCall
    \/ SeqTally
    \/ Spawn
    \/ WaitClose
    \/ Tally
    \/ Finish
    \/ \E w \in W : RunOneStart(w)
    \/ \E w \in W : BackupBegin(w)
    \/ \E w \in W : Connect(w)
    \/ \E w \in W : List(w)
    \/ \E w \in W : FileBegin(w)
    \/ \E w \in W : Download(w)
    \/ \E w \in W : LoopEnd(w)
    \/ \E w \in W : ArchiveOpen(w)
    \/ \E w \in W : ArchiveWalk(w)
    \/ \E w \in W : Close(w)
    \/ \E w \in W : Send(w)
    \/ \E w \in W : WgDone(w)

Spec == Init /\ [][Next]_vars

\* the steps of runBackup itself
MainStep ==
    \/ RunBackup
    \/ SeqCall
    \/ SeqTally
    \/ Spawn
    \/ WaitClose
    \/ Tally
    \/ Finish

\* lines 143-144: what a task does once its runOne has returned
Deliver(w) == Send(w) \/ WgDone(w)

\* a configuration of two servers of which one at least fails before its
\* backup begins
FairInit ==
    /\ Init
    /\ cfg.Defaults.TempDir = <<"tmp">>
    /\ Len(cfg.Servers) = 2
    /\ \E i \in 1..2 : cfg.Servers[i].RemotePath = NoPath \/ cfg.Servers[i].Type = "zip"
    /\ backupServer = ""

\* the runner under a scheduler that lets every goroutine that can take a
\* step take one: runBackup itself, and each task once its runOne has
\* returned
FairSpec ==
    /\ FairInit
    /\ [][Next]_vars
    /\ WF_vars(MainStep)
    /\ \A w \in W : WF_vars(Deliver(w))


\* ====================================================== the connectors
\* one connector (FTP, SFTP or Nitrado) under its caller.  A call is made
\* of steps: each network exchange of Connect, and the transfer of List,
\* Download and Upload, ends in a step of its own, so that the context can
\* be cancelled while the call is in flight.

\* an answer that is never taken for a rate limit
RateLimitedNever(resp) == FALSE

\* fetchFTPCredentials, line 151: the answer is a rate limit
RateLimited(resp) == resp.status = "429"

\* fetchFTPCredentials, lines 144-175: the error for an answer, if any
fetchFTPCredentials(resp) ==
    IF resp.status = "" THEN NetErr
    ELSE IF RateLimited(resp)
    THEN <<"rate limited by Nitrado API (retry after: ", resp.retryAfter, ")">>
    ELSE IF resp.status # "200"
    THEN <<"Nitrado API error (status ", resp.status, ")">>
    ELSE IF resp.body = "garbage" THEN <<"failed to parse Nitrado response">>
    ELSE IF resp.body # "success" THEN <<"Nitrado API returned error">>
    ELSE NoErr

\* NitradoConnector.Connect, lines 94-97: the error is wrapped
NitradoConnectErr(e) == <<"failed to get Nitrado FTP credentials: ">> \o e

\* a connector without the guard
NotConnectedUnchecked(k, hh) == FALSE

\* the guard at the head of List, Download and Upload of each variant
NotConnected(k, hh) ==
    CASE k = "ftp"     -> hh.conn = "nil"
      [] k = "sftp"    -> hh.sftp = "nil"
      [] k = "nitrado" -> ~hh.delegate

\* the session a transfer of the variant goes over
Session(k, hh) == IF k = "sftp" THEN hh.sftp ELSE hh.conn

\* what a command on a session can return: anything on an open session, an
\* error on a released one
CmdOutcomes(sess) == IF sess = "open" THEN {NoErr, NetErr} ELSE {NetErr}

\* the call that Manager.Backup makes next (part_008:52-113)
NextCall(r) ==
    CASE r.pc = "connect" -> "Connect"
      [] r.pc = "list"    -> "List"
      [] r.pc = "loop" /\ r.idx <= Len(KFiles) -> "Download"
      [] r.pc = "close"   -> "Close"
      [] OTHER            -> None

\* the caller may make this call now
MayCall(name) ==
    /\ call.phase \in {"none", "done"}
    /\ run.pc # "crashed"
    /\ \/ run.mode = "free" /\ run.calls < MaxCalls
       \/ run.mode = "backup" /\ NextCall(run) = name

\* a call begins: the record of it
Begin(name) == [NoCall EXCEPT !.name = name, !.fresh = (run.connects = 0),
                              !.unset = ~h.delegate,
                              !.closedBefore = (call.closedBefore \/ call.name = "Close")]

\* a Backup that connects again as long as retry_attempts allows
ConnectErrorRetries(retry, connects) == IF connects < retry THEN "connect" ELSE "done"

\* Manager.Backup, lines 52-54: where Backup goes after a failed Connect
ConnectErrorNext(retry, connects) == "done"

\* the caller after a call returned e
After(r, name, e) ==
    IF e = Panic THEN [r EXCEPT !.pc = "crashed"]
    ELSE IF r.mode = "free"
    THEN [r EXCEPT !.calls = @ + 1,
                   !.connects = IF name = "Connect" THEN @ + 1 ELSE @]
    ELSE CASE name = "Connect" ->
                [r EXCEPT !.connects = @ + 1,
                          !.pc = IF e = NoErr THEN "list"
                                 ELSE ConnectErrorNext(kcfg.RetryAttempts, r.connects + 1)]
           [] name = "List" ->
                [r EXCEPT !.pc = IF e = NoErr THEN "loop" ELSE "close"]
           [] name = "Download" ->
                [r EXCEPT !.dl[r.idx] = @ + 1,
                          !.idx = IF e = NoErr THEN @ + 1 ELSE @,
                          !.pc = IF e = NoErr THEN "loop" ELSE "close"]
           [] OTHER -> [r EXCEPT !.pc = "done"]

\* the call c returns e
Return(c, e) ==
    /\ call' = [c EXCEPT !.phase = "done", !.err = e]
    /\ run' = After(run, c.name, e)

\* the call c goes on with the exchange ph
Goes(c, ph) ==
    /\ call' = [c EXCEPT !.phase = ph]
    /\ run' = run

\* authentication methods with the password before the key
authMethodsPasswordFirst(c) ==
    (IF c.Password THEN <<"password">> ELSE <<>>)
        \o (IF c.KeyFile # "" THEN <<"publickey">> ELSE <<>>)

\* SFTPConnector.Connect, lines 39-59: the authentication methods offered
\* to the server, in order
authMethods(c) ==
    (IF c.KeyFile # "" THEN <<"publickey">> ELSE <<>>)
        \o (IF c.Password THEN <<"password">> ELSE <<>>)

\* SFTPConnector.Connect, lines 42-63: the error that ends Connect before
\* it dials, if any
AuthErr(c) ==
    IF c.KeyFile = "unreadable" THEN <<"failed to read key file">>
    ELSE IF c.KeyFile = "unparsable" THEN <<"failed to parse key file">>
    ELSE IF Len(authMethods(c)) = 0
    THEN <<"no authentication method provided (need password or key_file)">>
    ELSE NoErr

\* Connect is called: FTPConnector.Connect (ftp.go:34-45) dials,
\* SFTPConnector.Connect (sftp.go:38-73) needs an authentication method and
\* dials, NitradoConnector.Connect (nitrado.go:84-94) needs api_key and
\* service_id and asks the API
CallConnect ==
    /\ MayCall("Connect")
    /\ LET c == Begin("Connect") IN
         CASE kind = "ftp" -> Goes(c, "dial")
           [] kind = "sftp" ->
                IF AuthErr(kcfg) # NoErr THEN Return(c, AuthErr(kcfg))
                ELSE Goes([c EXCEPT !.auth = authMethods(kcfg)], "sshdial")
           [] kind = "nitrado" ->
                IF ~kcfg.APIKey THEN Return(c, <<"api_key is required">>)
                ELSE IF ~kcfg.ServiceID THEN Return(c, <<"service_id is required">>)
                ELSE Goes(c, "http")
    /\ UNCHANGED <<kind, kcfg, h, ctxDone, mainVars, logVars, restVars>>

\* fetchFTPCredentials (nitrado.go:127-176) and NitradoConnector.Connect,
\* lines 94-117: the request carries the context; with credentials the
\* delegate is built and dials
HttpDone ==
    /\ call.phase = "http"
    /\ \E resp \in (IF ctxDone THEN {TransportError} ELSE HttpAnswers \cup {TransportError}) :
         LET e == fetchFTPCredentials(resp)
             c == [call EXCEPT !.resp = resp, !.net = @ + 1, !.http = @ + 1]
         IN  IF e # NoErr
             THEN Return(c, NitradoConnectErr(e)) /\ h' = h
             ELSE /\ Goes(c, "dial")
                  /\ h' = [h EXCEPT !.delegate = TRUE, !.conn = "nil"]
    /\ UNCHANGED <<kind, kcfg, ctxDone, mainVars, logVars, restVars>>

\* FTPConnector.Connect, lines 37-48: ftp.Dial with the context
DialDone ==
    /\ call.phase = "dial"
    /\ LET c == [call EXCEPT !.net = @ + 1] IN
         \/ ~ctxDone /\ Goes(c, "login")
         \/ Return(c, <<"failed to connect to FTP">>)
    /\ UNCHANGED <<kind, kcfg, h, ctxDone, mainVars, logVars, restVars>>

\* FTPConnector.Connect, lines 50-56: Login; on failure the dialled
\* connection is quit and the handle stays as it was
LoginDone ==
    /\ call.phase = "login"
    /\ \/ /\ Return([call EXCEPT !.net = @ + 1], NoErr)
          /\ h' = [h EXCEPT !.conn = "open"]
       \/ /\ Return([call EXCEPT !.net = @ + 2], <<"FTP login failed">>)
          /\ h' = h
    /\ UNCHANGED <<kind, kcfg, ctxDone, mainVars, logVars, restVars>>

\* SFTPConnector.Connect, lines 72-77: ssh.Dial, which takes no context
SshDialDone ==
    /\ call.phase = "sshdial"
    /\ LET c == [call EXCEPT !.net = @ + 1] IN
         \/ /\ Goes(c, "sftpnew")
            /\ h' = [h EXCEPT !.ssh = "open"]
         \/ /\ Return(c, <<"failed to connect to SSH">>)
            /\ h' = h
    /\ UNCHANGED <<kind, kcfg, ctxDone, mainVars, logVars, restVars>>

\* SFTPConnector.Connect, lines 79-86: sftp.NewClient; on failure the SSH
\* client is closed and its handle kept
SftpNewDone ==
    /\ call.phase = "sftpnew"
    /\ \/ /\ Return([call EXCEPT !.net = @ + 1], NoErr)
          /\ h' = [h EXCEPT !.sftp = "open"]
       \/ /\ Return([call EXCEPT !.net = @ + 2], <<"failed to create SFTP client">>)
          /\ h' = [h EXCEPT !.ssh = "released"]
    /\ UNCHANGED <<kind, kcfg, ctxDone, mainVars, logVars, restVars>>

\* List, Download or Upload is called (ftp.go:60-63, 124-127, 141-144;
\* sftp.go:90-93, 150-153, 167-170; nitrado.go:178-200, which delegates)
CallXfer(name) ==
    /\ MayCall(name)
    /\ LET c == Begin(name) IN
         IF NotConnected(kind, h) \/ (kind = "nitrado" /\ NotConnected("ftp", h))
         THEN Return(c, NotConnectedErr)
         ELSE IF Session(kind, h) = "nil" THEN Return(c, Panic)
         ELSE Goes(c, "cmd")
    /\ UNCHANGED <<kind, kcfg, h, ctxDone, mainVars, logVars, restVars>>

\* the transfer of List, Download or Upload (ftp.go:66, 130-137, 150-152;
\* sftp.go:96, 156-163, 176-185): no context is passed to it
CmdDone ==
    /\ call.phase = "cmd"
    /\ \E e \in CmdOutcomes(Session(kind, h)) : Return([call EXCEPT !.net = @ + 1], e)
    /\ UNCHANGED <<kind, kcfg, h, ctxDone, mainVars, logVars, restVars>>

\* 1 for a handle that is not nil
Held(x) == IF x # "nil" THEN 1 ELSE 0

\* 1 for a handle whose session has been released
Released(x) == IF x = "released" THEN 1 ELSE 0

\* a handle after Close: it is not set to nil
AfterClose(x) == IF x = "nil" THEN "nil" ELSE "released"

\* Close (ftp.go:156-161, sftp.go:189-197, nitrado.go:203-208): every handle
\* that is not nil is quit or closed
CallClose ==
    /\ MayCall("Close")
    /\ LET c == Begin("Close") IN
         IF kind = "sftp"
         THEN /\ Return([c EXCEPT !.net = Held(h.sftp) + Held(h.ssh),
                                  !.rerel = Released(h.sftp) + Released(h.ssh)], NoErr)
              /\ h' = [h EXCEPT !.sftp = AfterClose(@), !.ssh = AfterClose(@)]
         ELSE IF (kind = "nitrado" /\ ~h.delegate) \/ h.conn = "nil"
         THEN Return(c, NoErr) /\ h' = h
         ELSE /\ \E e \in CmdOutcomes(h.conn) :
                    Return([c EXCEPT !.net = 1, !.rerel = Released(h.conn)], e)
              /\ h' = [h EXCEPT !.conn = "released"]
    /\ UNCHANGED <<kind, kcfg, ctxDone, mainVars, logVars, restVars>>

\* Manager.Backup, lines 115-131: the loop is over, the archive is built
KArchive ==
    /\ run.mode = "backup"
    /\ run.pc = "loop"
    /\ run.idx > Len(KFiles)
    /\ call.phase = "done"
    /\ \E ok \in BOOLEAN : run' = [run EXCEPT !.archive = ok, !.pc = "close"]
    /\ UNCHANGED <<kind, kcfg, h, ctxDone, call, mainVars, logVars, restVars>>

\* the caller's context is cancelled
Cancel ==
    /\ run.mode # "off"
    /\ ~ctxDone
    /\ ctxDone' = TRUE
    /\ call' = IF call.phase \in {"none", "done"} THEN call
               ELSE [call EXCEPT !.cancelled = TRUE]
    /\ UNCHANGED <<kind, kcfg, h, run, mainVars, logVars, restVars>>

\* the runner with an empty configuration, at rest
MainIdle ==
    /\ MainInit
    /\ cfg = [Defaults |-> [BackupLocation |-> <<"bk">>, TempDir |-> NoPath],
              Servers |-> <<>>]
    /\ ~backupSequential
    /\ backupServer = ""

ConnInit ==
    /\ MainIdle
    /\ LogIdle
    /\ RestIdle
    /\ kind \in Kinds
    /\ kcfg \in KConfigs(kind)
    /\ h = FreshHandles
    /\ ctxDone = FALSE
    /\ call = NoCall
    /\ \E m \in {"backup", "free"} : run = FreshRun(m)

ConnNext ==
    \/ CallConnect
    \/ HttpDone
    \/ DialDone
    \/ LoginDone
    \/ SshDialDone
    \/ SftpNewDone
    \/ \E name \in {"List", "Download", "Upload"} : CallXfer(name)
    \/ CmdDone
    \/ CallClose
    \/ KArchive
    \/ Cancel

ConnSpec == ConnInit /\ [][ConnNext]_vars

\* ========================================================== the loggers
\* the progress callbacks of the server tasks of a parallel run: each task
\* reports through progress.New(serverLogger, format), where serverLogger is
\* logger.WithPrefix(...) of the one root logger (backup.go:86, 104)

\* the callbacks Manager.Backup makes for one file (part_008:71-117)
Callbacks == <<"Start", "FileStart", "FileProgress", "FileDone", "Close">>

\* log.Level
DebugLevel == 0
InfoLevel == 1
ErrorLevel == 3

\* progress.New: the reporter of quiet and json mode does nothing
NullProgress(c) == c.quiet \/ c.format = "json"

\* simpleProgress: the level each callback logs at; FileProgress and Close
\* log nothing
CallbackLevel(cb) ==
    CASE cb \in {"Start", "FileStart"} -> InfoLevel
      [] cb = "FileDone" -> DebugLevel
      [] OTHER -> -1

\* the level of the root logger (New, SetQuiet, SetVerbose), which WithPrefix
\* copies
MinLevel(c) == IF c.quiet THEN ErrorLevel ELSE IF c.verbose THEN DebugLevel ELSE InfoLevel

\* Logger.WithPrefix: the logger of a task is a new Logger, with a mutex of
\* its own
MutexOf(w) == w

\* Logger.log, lines 175-180: the stream a level is written to; WithPrefix
\* copies both writers of the root logger
StreamOf(level) == IF level >= ErrorLevel THEN "err" ELSE "out"

\* the task makes its next callback
LCallback(w) ==
    /\ lpc[w] = "ready"
    /\ lcb[w] <= Len(Callbacks)
    /\ IF NullProgress(lcfg) \/ CallbackLevel(Callbacks[lcb[w]]) < 0
       THEN lcb' = [lcb EXCEPT ![w] = @ + 1] /\ lpc' = lpc
       ELSE lpc' = [lpc EXCEPT ![w] = "lock"] /\ lcb' = lcb
    /\ UNCHANGED <<lcfg, lmu, writing, mainVars, connVars, restVars>>

\* Logger.log, lines 157-162: the logger's mutex is taken, the level checked
LLock(w) ==
    /\ lpc[w] = "lock"
    /\ lmu[MutexOf(w)] = 0
    /\ lmu' = [lmu EXCEPT ![MutexOf(w)] = w]
    /\ lpc' = [lpc EXCEPT ![w] = IF CallbackLevel(Callbacks[lcb[w]]) < MinLevel(lcfg)
                                 THEN "unlock" ELSE "write"]
    /\ UNCHANGED <<lcfg, lcb, writing, mainVars, connVars, restVars>>

\* Logger.log, lines 175-189, writeText: the write to the stream begins
LWriteBegin(w) ==
    /\ lpc[w] = "write"
    /\ writing' = writing \cup {<<StreamOf(CallbackLevel(Callbacks[lcb[w]])), w>>}
    /\ lpc' = [lpc EXCEPT ![w] = "writing"]
    /\ UNCHANGED <<lcfg, lmu, lcb, mainVars, connVars, restVars>>

\* writeText: the write to the stream is over
LWriteEnd(w) ==
    /\ lpc[w] = "writing"
    /\ writing' = writing \ {<<StreamOf(CallbackLevel(Callbacks[lcb[w]])), w>>}
    /\ lpc' = [lpc EXCEPT ![w] = "unlock"]
    /\ UNCHANGED <<lcfg, lmu, lcb, mainVars, connVars, restVars>>

\* Logger.log, line 158: the deferred Unlock; the callback returns
LUnlock(w) ==
    /\ lpc[w] = "unlock"
    /\ lmu' = [lmu EXCEPT ![MutexOf(w)] = 0]
    /\ lcb' = [lcb EXCEPT ![w] = @ + 1]
    /\ lpc' = [lpc EXCEPT ![w] = "ready"]
    /\ UNCHANGED <<lcfg, writing, mainVars, connVars, restVars>>

\* the flags of the command line: --quiet and --verbose exclude each other
LogConfigs ==
    { c \in [format : {"text", "json"}, quiet : BOOLEAN, verbose : BOOLEAN] :
        ~(c.quiet /\ c.verbose) }

LogInit ==
    /\ MainIdle
    /\ ConnIdle
    /\ RestIdle
    /\ lcfg \in LogConfigs
    /\ lmu = [w \in W |-> 0]
    /\ lpc = [w \in W |-> "ready"]
    /\ lcb = [w \in W |-> 1]
    /\ writing = {}

LogNext ==
    \/ \E w \in W : LCallback(w)
    \/ \E w \in W : LLock(w)
    \/ \E w \in W : LWriteBegin(w)
    \/ \E w \in W : LWriteEnd(w)
    \/ \E w \in W : LUnlock(w)

LogSpec == LogInit /\ [][LogNext]_vars

\* ================================================= the progress reporter
\* one Manager.Backup with a reporter in Manager.Progress.  Download copies
\* the remote file into the progressWriter chunk by chunk; what the remote
\* side sends need not be the size the listing gave.

notProg == <<mainVars, connVars, logVars, matchVars, listVars>>

\* a call on progress.Reporter
Report(op, path, n) == [op |-> op, path |-> path, n |-> n]

\* `if m.Progress != nil { m.Progress.X(...) }`
Reported(cs, c) == IF progress THEN Append(cs, c) ELSE cs

\* what the Write of the local file returns for one chunk: the chunk
\* written, or an error with nothing written
WriteOutcomes == { [n |-> 5, err |-> FALSE], [n |-> 0, err |-> TRUE] }

\* a writer that reports the bytes of the last Write only
CumulativeLast(pn, n) == n

\* progressWriter.Write, line 143: p.n += int64(n)
Cumulative(pn, n) == pn + n

\* Manager.Backup returns the error e; Close was deferred or not
BReturn(e) ==
    /\ berr' = e
    /\ bpc' = "ret"

\* Manager.Backup, lines 31-55: the guards, the staging directory, Connect
BConnect ==
    /\ bpc = "connect"
    /\ \/ bpc' = "list" /\ berr' = berr
       \/ BReturn("create temp dir")
       \/ BReturn("connect")
    /\ UNCHANGED <<progress, bfiles, bidx, pwn, staged, calls, bstats, notProg>>

\* Manager.Backup, lines 57-73: List, the totals of the listing, Start
BList ==
    /\ bpc = "list"
    /\ \/ \E l \in Listings :
            /\ bfiles' = l
            /\ bstats' = CountStats(l, FreshStats)
            /\ calls' = Reported(calls, Report("Start", "", CountStats(l, FreshStats).Bytes))
            /\ bpc' = "loop"
            /\ berr' = berr
       \/ /\ BReturn("list")
          /\ UNCHANGED <<bfiles, bstats, calls>>
    /\ UNCHANGED <<progress, bidx, pwn, staged, notProg>>

\* Manager.Backup, lines 76-102: one entry of the listing; for a file the
\* local file is created, FileStart reported, and a progressWriter made
BFileBegin ==
    /\ bpc = "loop"
    /\ bidx <= Len(bfiles)
    /\ LET f == bfiles[bidx] IN
         \/ /\ f.IsDir
            /\ bidx' = bidx + 1
            /\ UNCHANGED <<bpc, berr, pwn, staged, calls>>
         \/ /\ ~f.IsDir
            /\ staged' = Append(staged, [Path |-> f.Path, bytes |-> 0, writes |-> 0,
                                         done |-> FALSE])
            /\ calls' = Reported(calls, Report("FileStart", f.Path, f.Size))
            /\ pwn' = 0
            /\ bpc' = "download"
            /\ UNCHANGED <<bidx, berr>>
         \/ /\ ~f.IsDir
            /\ \E e \in {"mkdir", "create"} : BReturn(e)
            /\ UNCHANGED <<bidx, pwn, staged, calls>>
    /\ UNCHANGED <<progress, bfiles, bstats, notProg>>

\* progressWriter.Write, lines 141-148, called by the connector's Download:
\* the chunk goes to the local file, the count is added up and reported
Write ==
    /\ bpc = "download"
    /\ staged[Len(staged)].writes < MaxChunks
    /\ \E o \in WriteOutcomes :
         LET k == Len(staged)
             n == Cumulative(pwn, o.n)
         IN  /\ staged' = [staged EXCEPT ![k].bytes = @ + o.n, ![k].writes = @ + 1]
             /\ pwn' = n
             /\ calls' = Reported(calls, Report("FileProgress", staged[k].Path, n))
             /\ bpc' = IF o.err THEN "failing" ELSE "download"
    /\ UNCHANGED <<progress, bfiles, bidx, bstats, berr, notProg>>

\* Manager.Backup, lines 104-112: Download returns; on success FileDone is
\* reported and the loop goes on
BDownloadReturns ==
    /\ bpc \in {"download", "failing"}
    /\ \/ /\ bpc = "download"
          /\ staged' = [staged EXCEPT ![Len(staged)].done = TRUE]
          /\ calls' = Reported(calls, Report("FileDone", staged[Len(staged)].Path, 0))
          /\ bidx' = bidx + 1
          /\ bpc' = "loop"
          /\ berr' = berr
       \/ /\ BReturn("download")
          /\ UNCHANGED <<staged, calls, bidx>>
    /\ UNCHANGED <<progress, bfiles, pwn, bstats, notProg>>

\* Manager.Backup, lines 115-123: after the loop the reporter is closed and
\* the backup directory made
BLoopEnd ==
    /\ bpc = "loop"
    /\ bidx > Len(bfiles)
    /\ calls' = Reported(calls, Report("Close", "", 0))
    /\ \/ bpc' = "archive" /\ berr' = berr
       \/ BReturn("create backup dir")
    /\ UNCHANGED <<progress, bfiles, bidx, pwn, staged, bstats, notProg>>

\* Manager.Backup, lines 125-131: CreateArchive, and the return
BArchive ==
    /\ bpc = "archive"
    /\ \/ BReturn(None)
       \/ BReturn("create archive")
    /\ UNCHANGED <<progress, bfiles, bidx, pwn, staged, calls, bstats, notProg>>

ProgInit ==
    /\ MainIdle
    /\ ConnIdle
    /\ LogIdle
    /\ MatchIdle
    /\ ListIdle
    /\ progress \in BOOLEAN
    /\ FreshBackup

ProgNext ==
    \/ BConnect
    \/ BList
    \/ BFileBegin
    \/ Write
    \/ BDownloadReturns
    \/ BLoopEnd
    \/ BArchive

ProgSpec == ProgInit /\ [][ProgNext]_vars

\* =================================================== the pattern matcher
\* connector.MatchesPatterns.  A string is the sequence of its characters.

notMatch == <<mainVars, connVars, logVars, progVars, listVars>>

\* strings.HasPrefix, strings.HasSuffix, strings.TrimSuffix
HasPrefix(s, pre) == Len(s) >= Len(pre) /\ SubSeq(s, 1, Len(pre)) = pre
HasSuffix(s, suf) == Len(s) >= Len(suf) /\ SubSeq(s, Len(s) - Len(suf) + 1, Len(s)) = suf
TrimSuffix(s, suf) == IF HasSuffix(s, suf) THEN SubSeq(s, 1, Len(s) - Len(suf)) ELSE s

RECURSIVE TrimSlashes(_)
\* filepath.Base: the trailing slashes are stripped
TrimSlashes(s) ==
    IF s # <<>> /\ s[Len(s)] = "/" THEN TrimSlashes(SubSeq(s, 1, Len(s) - 1)) ELSE s

RECURSIVE AfterLastSlash(_)
\* filepath.Base: what follows the last slash
AfterLastSlash(s) ==
    IF \E i \in 1..Len(s) : s[i] = "/" THEN AfterLastSlash(Tail(s)) ELSE s

\* filepath.Base: the last element of the path; "." for the empty path and
\* "/" for a path of slashes only
Base(path) ==
    IF path = <<>> THEN <<".">>
    ELSE IF TrimSlashes(path) = <<>> THEN <<"/">>
    ELSE AfterLastSlash(TrimSlashes(path))

RECURSIVE Match(_, _)
\* filepath.Match, with the error dropped as MatchesPatterns drops it: `*`
\* is any run of characters without a slash, `?` one character that is no
\* slash, `\` takes the next character literally, and a pattern that ends
\* in `\` is malformed and matches nothing.  Character classes do not occur
\* in the patterns considered.
Match(pattern, name) ==
    IF pattern = <<>> THEN name = <<>>
    ELSE IF pattern[1] = "*"
    THEN \E k \in 0..Len(name) :
            /\ \A i \in 1..k : name[i] # "/"
            /\ Match(Tail(pattern), SubSeq(name, k + 1, Len(name)))
    ELSE IF pattern[1] = "?"
    THEN name # <<>> /\ name[1] # "/" /\ Match(Tail(pattern), Tail(name))
    ELSE IF pattern[1] = "\\"
    THEN /\ Len(pattern) >= 2
         /\ name # <<>>
         /\ name[1] = pattern[2]
         /\ Match(SubSeq(pattern, 3, Len(pattern)), Tail(name))
    ELSE name # <<>> /\ name[1] = pattern[1] /\ Match(Tail(pattern), Tail(name))

\* a directory rule that looks at prefixes only
ExcludedByPrefixOnly(path, pattern) ==
    IF HasSuffix(pattern, <<"/">>)
    THEN LET dir == TrimSuffix(pattern, <<"/">>) IN
           HasPrefix(path, dir \o <<"/">>) \/ HasPrefix(path, dir \o <<"\\">>)
    ELSE Match(pattern, Base(path)) \/ Match(pattern, path)

\* MatchesPatterns, lines 36-56: one exclude pattern against the path
ExcludedBy(path, pattern) ==
    IF HasSuffix(pattern, <<"/">>)
    THEN LET dir == TrimSuffix(pattern, <<"/">>) IN
           \/ HasPrefix(path, dir \o <<"/">>)
           \/ HasPrefix(path, dir \o <<"\\">>)
           \/ path = dir
    ELSE Match(pattern, Base(path)) \/ Match(pattern, path)

\* MatchesPatterns, lines 60-71: one include pattern against the path
IncludedBy(path, pattern) ==
    \/ pattern = <<"*">>
    \/ Match(pattern, Base(path))
    \/ Match(pattern, path)

\* an include list taken as it is
DefaultIncludeNone(include) == include

\* MatchesPatterns, lines 30-33: include defaults to ["*"]
DefaultInclude(include) == IF include = <<>> THEN << <<"*">> >> ELSE include

\* a matcher that looks at the include patterns first
MatchesPatternsIncludeFirst(path, include, exclude) ==
    LET inc == DefaultInclude(include) IN
      \/ \E i \in 1..Len(inc) : IncludedBy(path, inc[i])
      \/ ~\E i \in 1..Len(exclude) : ExcludedBy(path, exclude[i])

\* connector.MatchesPatterns
MatchesPatterns(path, include, exclude) ==
    LET inc == DefaultInclude(include) IN
      IF \E i \in 1..Len(exclude) : ExcludedBy(path, exclude[i]) THEN FALSE
      ELSE \E i \in 1..Len(inc) : IncludedBy(path, inc[i])

\* the characters of the paths considered
PathChars == {"d", "x", ".", "/", "\\"}

\* the paths considered: every string of up to MaxLen characters
Paths == UNION { [1..n -> PathChars] : n \in 0..MaxLen }

\* the include lists considered: empty, all, one glob, two patterns
Includes ==
    { <<>>,
      << <<"*">> >>,
      << <<"x", "?">> >>,
      << <<"*", ".", "x">>, <<"d">> >> }

\* the exclude lists considered: empty, a directory rule, a glob, the two
\* together, a malformed glob, a pattern for a full path
Excludes ==
    { <<>>,
      << <<"d", "/">> >>,
      << <<"*", "x">> >>,
      << <<"d", "/">>, <<"?">> >>,
      << <<"x", "\\">> >>,
      << <<"d", "/", "x">> >> }

\* a caller gets the result of MatchesPatterns for its arguments
CallMatchesPatterns ==
    /\ ~mResult.done
    /\ mResult' = [done |-> TRUE, value |-> MatchesPatterns(mPath, mInclude, mExclude)]
    /\ UNCHANGED <<mPath, mInclude, mExclude, notMatch>>

MatchInit ==
    /\ MainIdle
    /\ ConnIdle
    /\ LogIdle
    /\ ProgIdle
    /\ ListIdle
    /\ mPath \in Paths
    /\ mInclude \in Includes
    /\ mExclude \in Excludes
    /\ mResult = NoResult

MatchNext == CallMatchesPatterns

MatchSpec == MatchInit /\ [][MatchNext]_vars

\* ============================================================ the listing
\* List of the FTP and the SFTP connector over the tree below the remote
\* root (the Nitrado connector hands List to an FTP connector of the same
\* remote_path, include and exclude).  Paths are strings here.

notList == <<mainVars, connVars, logVars, progVars, matchVars>>

RECURSIVE Split(_)
\* the elements of a path between its slashes
Split(s) ==
    IF ~\E i \in 1..Len(s) : s[i] = "/" THEN <<s>>
    ELSE LET i == CHOOSE i \in 1..Len(s) : s[i] = "/" /\ \A j \in 1..(i - 1) : s[j] # "/"
         IN  <<SubSeq(s, 1, i - 1)>> \o Split(SubSeq(s, i + 1, Len(s)))

RECURSIVE JoinElems(_)
\* the elements with a slash between them
JoinElems(es) ==
    IF es = <<>> THEN <<>>
    ELSE IF Len(es) = 1 THEN es[1]
    ELSE es[1] \o <<"/">> \o JoinElems(Tail(es))

RECURSIVE CleanElems(_, _, _)
\* path.Clean: empty and "." elements go, ".." takes the element before it
\* with it, or goes itself at the top of a rooted path
CleanElems(es, out, rooted) ==
    IF es = <<>> THEN out
    ELSE LET e == Head(es) IN
         IF e = <<>> \/ e = <<".">> THEN CleanElems(Tail(es), out, rooted)
         ELSE IF e = <<".", ".">>
         THEN IF out # <<>> /\ out[Len(out)] # <<".", ".">>
              THEN CleanElems(Tail(es), SubSeq(out, 1, Len(out) - 1), rooted)
              ELSE IF rooted THEN CleanElems(Tail(es), out, rooted)
              ELSE CleanElems(Tail(es), Append(out, e), rooted)
         ELSE CleanElems(Tail(es), Append(out, e), rooted)

\* path.Clean (and filepath.Clean)
Clean(s) ==
    IF s = <<>> THEN <<".">>
    ELSE LET rooted == s[1] = "/"
             body == JoinElems(CleanElems(Split(s), <<>>, rooted))
         IN  IF rooted THEN <<"/">> \o body
             ELSE IF body = <<>> THEN <<".">> ELSE body

\* path.Join (and filepath.Join) of two elements
PathJoin(a, b) ==
    IF a = <<>> /\ b = <<>> THEN <<>>
    ELSE IF a = <<>> THEN Clean(b)
    ELSE IF b = <<>> THEN Clean(a)
    ELSE Clean(a \o <<"/">> \o b)

\* the elements of a cleaned path
Elems(c) == IF c \in {<<".">>, <<"/">>} THEN <<>>
            ELSE IF c[1] = "/" THEN Split(Tail(c)) ELSE Split(c)

RECURSIVE Common(_, _)
\* the number of leading elements two paths share
Common(a, b) ==
    IF a = <<>> \/ b = <<>> \/ Head(a) # Head(b) THEN 0 ELSE 1 + Common(Tail(a), Tail(b))

\* filepath.Rel with its error dropped, as SFTPConnector.walkDir drops it:
\* empty when one path is rooted and the other is not
Rel(basepath, targpath) ==
    LET base == Clean(basepath)
        targ == Clean(targpath)
        be   == Elems(base)
        te   == Elems(targ)
        n    == Common(be, te)
    IN  IF targ = base THEN <<".">>
        ELSE IF (base[1] = "/") # (targ[1] = "/") THEN <<>>
        ELSE JoinElems([i \in 1..(Len(be) - n) |-> <<".", ".">>]
                          \o SubSeq(te, n + 1, Len(te)))

\* a slice expression out of range
SlicePanic == <<"panic: slice bounds out of range">>

\* walkDir, ftp.go:97-103 and sftp.go:126-129: the path relative to the root
relPath(k, root, fullPath) ==
    IF Len(root) = 0 THEN [path |-> fullPath, panic |-> FALSE]
    ELSE IF k = "sftp" THEN [path |-> Rel(root, fullPath), panic |-> FALSE]
    ELSE IF Len(fullPath) < Len(root) THEN [path |-> <<>>, panic |-> TRUE]
    ELSE LET r == SubSeq(fullPath, Len(root) + 1, Len(fullPath)) IN
           [path |-> IF Len(r) > 0 /\ r[1] = "/" THEN Tail(r) ELSE r, panic |-> FALSE]

\* walkDir, ftp.go:113 and sftp.go:139: the entry is a directory to go into
Recurse(e) == e.IsDir

RECURSIVE walkDir(_, _, _, _)
\* FTPConnector.walkDir and SFTPConnector.walkDir over the entries the
\* server lists for dir: [files, panic]
walkDir(k, root, dir, entries) ==
    IF entries = <<>> THEN [files |-> <<>>, panic |-> FALSE]
    ELSE LET e == Head(entries) IN
         IF e.Name \in {<<".">>, <<".", ".">>} THEN walkDir(k, root, dir, Tail(entries))
         ELSE LET fullPath == PathJoin(dir, e.Name)
                  rel  == relPath(k, root, fullPath)
                  info == [Path |-> rel.path, Size |-> e.Size, IsDir |-> e.IsDir]
                  sub  == IF Recurse(e) THEN walkDir(k, root, fullPath, e.Kids)
                          ELSE [files |-> <<>>, panic |-> FALSE]
                  rest == walkDir(k, root, dir, Tail(entries))
              IN  IF rel.panic \/ sub.panic \/ rest.panic
                  THEN [files |-> <<>>, panic |-> TRUE]
                  ELSE [files |-> <<info>> \o sub.files \o rest.files, panic |-> FALSE]

\* List, ftp.go:72-81 and sftp.go:102-109: what stays in the result
Keep(f, c) == ~f.IsDir /\ MatchesPatterns(f.Path, c.Include, c.Exclude)

\* FTPConnector.List, SFTPConnector.List on a connected connector whose
\* server answers every listing
ConnectorList(c, tree) ==
    LET all == walkDir(c.Type, c.RemotePath, c.RemotePath, tree) IN
      IF all.panic THEN [done |-> TRUE, files |-> <<>>, err |-> SlicePanic]
      ELSE [done |-> TRUE, files |-> SelectSeq(all.files, LAMBDA f : Keep(f, c)), err |-> NoErr]

\* entries of a remote directory
RFile(name, size) == [Name |-> name, IsDir |-> FALSE, Size |-> size, Kids |-> <<>>]
RDir(name, kids)  == [Name |-> name, IsDir |-> TRUE, Size |-> 0, Kids |-> kids]

\* the remote trees considered: an empty root; a file and a directory with a
\* file and an empty directory in it; the same as a server lists it that
\* sends the "." and ".." entries too
Trees ==
    { <<>>,
      << RFile(<<"x">>, 10), RDir(<<"d">>, << RFile(<<"x">>, 5), RDir(<<"d">>, <<>>) >>) >>,
      << RDir(<<".">>, <<>>), RDir(<<".", ".">>, <<>>),
         RDir(<<"d">>, << RDir(<<".">>, <<>>), RFile(<<"d", ".", "x">>, 5) >>) >> }

\* the remote_path values considered
Roots ==
    { <<>>, <<"/">>, <<"/", "r">>, <<"/", "r", "/">>, <<"r", "/", "d">>,
      <<".", "/", "r">>, <<"/", "r", "/", "/">>, <<"/", "r", "/", ".", "/">> }

\* the include and exclude lists considered
ListPatterns ==
    { [Include |-> <<>>, Exclude |-> <<>>],
      [Include |-> << <<"*">> >>, Exclude |-> << <<"d", "/">> >>],
      [Include |-> << <<"*", ".", "x">>, <<"x">> >>, Exclude |-> << <<"d", "/", "x">> >>] }

\* List is called on a connected connector: it returns the filtered walk, or
\* the error of a listing that failed
CallList ==
    /\ ~listing.done
    /\ \/ listing' = ConnectorList(lscfg, remote)
       \/ listing' = [done |-> TRUE, files |-> <<>>, err |-> <<"failed to list">>]
    /\ UNCHANGED <<lscfg, remote, notList>>

ListInit ==
    /\ MainIdle
    /\ ConnIdle
    /\ LogIdle
    /\ ProgIdle
    /\ MatchIdle
    /\ \E k \in {"ftp", "sftp"}, r \in Roots, pt \in ListPatterns :
          lscfg = [Type |-> k, RemotePath |-> r, Include |-> pt.Include,
                   Exclude |-> pt.Exclude]
    /\ remote \in Trees
    /\ listing = NoListing

ListNext == CallList

ListSpec == ListInit /\ [][ListNext]_vars

\* ================================================================ claims
\* positions of a server task inside Manager.Backup once Connect succeeded
InBackup == {"list", "loop", "download", "archive", "walk", "close"}

\* the non-directory paths of a listing
FilePaths(l) == { l[i].Path : i \in { j \in 1..Len(l) : ~l[j].IsDir } }

\* the server tasks of this invocation
Tasks == 1..N

\* C1: CreateArchive is invoked, and an archive path returned, only after
\* every non-directory file that List returned has been downloaded without
\* error; a run with a failed download never creates an archive file.
C1_ArchiveOnlyAfterAllDownloads ==
    \A w \in W :
        /\ (arch[w].calls > 0 \/ bret[w].path # NoPath) =>
              /\ FilePaths(files[w]) \subseteq downloaded[w]
              /\ conn[w].downloadCalls = Cardinality(downloaded[w])
        /\ bret[w].err = "download" => arch[w].calls = 0 /\ ~arch[w].created

\* C1 witness: Backup returned an archive path after downloading two files
C1_Witness ==
    \E w \in W : /\ pc[w] = "ret"
                 /\ bret[w].path # NoPath
                 /\ Cardinality(downloaded[w]) = 2

\* C2: when runBackup returns, in sequential and in parallel mode, every
\* selected server has been attempted exactly once whatever the others'
\* outcomes, and every failed server is one tallied failure.
C2_EveryServerAttemptedOnce ==
    /\ \A w \in W : attempts[w] <= 1
    /\ (pcMain = "returned" /\ N > 0) =>
          /\ \A w \in Tasks : attempts[w] = 1 /\ pc[w] = "exited"
          /\ failures = Cardinality({ w \in Tasks : ~res[w].success })

\* C2 witness: a sequential run of two servers whose first server failed
C2_Witness ==
    /\ pcMain = "returned"
    /\ backupSequential
    /\ N = 2
    /\ ~res[1].success
    /\ res[2].success
    /\ attempts[2] = 1

\* C3: when runBackup returns, successes + failures = N with each outcome
\* counted once, and the aggregate error is non-nil exactly when at least
\* one server failed.
C3_TallyAndAggregateError ==
    (pcMain = "returned" /\ N > 0) =>
        /\ successes = Cardinality({ w \in Tasks : res[w].success })
        /\ failures = Cardinality({ w \in Tasks : ~res[w].success })
        /\ successes + failures = N
        /\ (retErr # None) <=> (failures > 0)

\* C3 witness: a parallel run of two servers, one failed and one succeeded
C3_Witness ==
    /\ pcMain = "returned"
    /\ ~backupSequential
    /\ N = 2
    /\ failures = 1
    /\ successes = 1
    /\ retErr # None

\* C4: once Connect has succeeded, Close is invoked exactly once before
\* Backup returns, on every exit path, and never more than once.
C4_CloseOnceAfterConnect ==
    \A w \in W :
        /\ conn[w].closeCalls <= 1
        /\ (pc[w] = "ret" /\ conn[w].connectOk) =>
              conn[w].closeCalls = 1 /\ ~conn[w].connected

\* C4 witness: two runs have returned after a successful Connect, one with
\* a list error and one with an archive, each with its Close done
C4_Witness ==
    \E v, w \in W :
        /\ pc[v] = "ret" /\ bret[v].err = "list" /\ conn[v].closeCalls = 1
        /\ pc[w] = "ret" /\ bret[w].err = None /\ bret[w].path # NoPath
        /\ conn[w].closeCalls = 1

\* C5 as stated: whenever Backup has called Connect and returns, Close has
\* been invoked on the connector, also when Connect failed.
C5_CloseAlwaysInvoked ==
    \A w \in W : (pc[w] = "ret" /\ conn[w].connectCalls > 0) => conn[w].closeCalls > 0

\* C5 amended: when Backup returns, Close has been invoked exactly if
\* Connect succeeded; when Connect fails the run aborts at once, with an
\* error, no List, Download or archive step, and no Close.
C5_CloseIffConnected ==
    \A w \in W :
        (pc[w] = "ret" /\ conn[w].connectCalls > 0) =>
            /\ conn[w].closeCalls = (IF conn[w].connectOk THEN 1 ELSE 0)
            /\ ~conn[w].connectOk =>
                  /\ bret[w].err = "connect"
                  /\ conn[w].listCalls = 0
                  /\ conn[w].downloadCalls = 0
                  /\ arch[w].calls = 0

\* C5 witness: Backup has returned after a failed Connect
C5_Witness ==
    \E w \in W : /\ pc[w] = "ret"
                 /\ conn[w].connectCalls = 1
                 /\ ~conn[w].connectOk
                 /\ conn[w].closeCalls = 0

\* C6: the steps of one Backup occur in the order Connect, List, Download,
\* archive: each step only after the one before succeeded, each of Connect,
\* List and CreateArchive at most once; and once a step has failed nothing
\* but Close follows: the calls made are those made up to the failing step.
C6_StepOrder ==
    \A w \in W :
        /\ conn[w].connectCalls <= 1 /\ conn[w].listCalls <= 1 /\ arch[w].calls <= 1
        /\ conn[w].listCalls > 0 => conn[w].connectOk
        /\ conn[w].downloadCalls > 0 => conn[w].listOk
        /\ arch[w].calls > 0 =>
              /\ conn[w].listOk
              /\ idx[w] > Len(files[w])
        /\ pc[w] \in {"connect", "list"} => conn[w].downloadCalls = 0 /\ arch[w].calls = 0
        /\ pc[w] \in {"loop", "download"} => arch[w].calls = 0
        /\ bret[w].err # None =>
              /\ pc[w] \in {"close", "ret"}
              /\ bret[w].path = NoPath
              /\ bret[w].err = "connect" =>
                    conn[w].listCalls = 0 /\ conn[w].downloadCalls = 0 /\ arch[w].calls = 0
              /\ bret[w].err = "list" =>
                    ~conn[w].listOk /\ conn[w].downloadCalls = 0 /\ arch[w].calls = 0
              /\ bret[w].err \in {"mkdir", "create", "download"} =>
                    /\ idx[w] <= Len(files[w])
                    /\ arch[w].calls = 0
              /\ bret[w].err = "download" =>
                    conn[w].downloadCalls = Cardinality(downloaded[w]) + 1
              /\ bret[w].err = "create backup dir" => arch[w].calls = 0

\* C6 witness: a run whose second download failed has stopped there
C6_Witness ==
    \E w \in W : /\ pc[w] = "ret"
                 /\ bret[w].err = "download"
                 /\ conn[w].downloadCalls = 2
                 /\ arch[w].calls = 0

\* C7: no two server tasks that are inside Backup at the same time use the
\* same staging directory.
C7_OwnStagingDirectory ==
    \A v, w \in W :
        (v # w /\ pc[v] \in InBackup /\ pc[w] \in InBackup) => tempDir[v] # tempDir[w]

\* C8: the archive of a successful run holds file entries for exactly the
\* files that List returned in that run.
C8_ArchiveHoldsListedFiles ==
    \A w \in W :
        (pc[w] = "ret" /\ bret[w].err = None /\ bret[w].path # NoPath) =>
            { e.name : e \in { x \in arch[w].entries : ~x.isDir } } = FilePaths(files[w])

\* C9: the staging directory a run starts with holds nothing that went into
\* the archive of a run that succeeded before.
C9_StagingIsTransient ==
    [][\A w \in W :
          (pc[w] = "backup" /\ pc'[w] = "connect") =>
              ~\E e \in staging' : e.dir = tempDir'[w] /\ e.archived]_vars

\* C10: a successful run does not create its archive at the path of another
\* run's finished archive, and no other run has its archive open at the path
\* of a successful run's archive.
C10_ArchivePathsDistinct ==
    \A w \in W :
        (pc[w] = "ret" /\ bret[w].err = None /\ bret[w].path # NoPath) =>
            /\ ~arch[w].clobbered
            /\ \A v \in W \ {w} : ~(arch[v].created /\ arch[v].path = arch[w].path)

\* a server's runOne has been called, or dispatched, and has not finished
InProgress(w) == pc[w] \notin {"idle", "exited"}

\* C11: with the sequential flag, or with one server selected, at most one
\* server's backup is in progress at any time, and a server's backup starts
\* only when all servers before it are done; without the flag and with two
\* servers or more, every server is dispatched as a task of its own, without
\* waiting for any other.
C11_ParallelByDefault ==
    /\ (backupSequential \/ N = 1) =>
          /\ Cardinality({ w \in W : InProgress(w) }) <= 1
          /\ \A w \in Tasks : InProgress(w) => \A v \in 1..(w - 1) : pc[v] = "exited"
          /\ wg = 0
    /\ (~backupSequential /\ N >= 2) =>
          /\ pcMain # "seq"
          /\ wg = Cardinality({ w \in Tasks : pc[w] \notin {"idle", "exited"} })
          /\ \A w \in Tasks : attempts[w] = (IF w < next THEN 1 ELSE 0)

\* C11 witness: without the flag, the backups of both servers are inside
\* Manager.Backup at once
C11_Witness ==
    /\ ~backupSequential
    /\ N = 2
    /\ \A w \in Tasks : pc[w] \in InBackup

\* C12: in parallel mode nothing is tallied, and runBackup does not return,
\* before every server task has finished; in either mode no task is in
\* progress once runBackup has returned.
C12_JoinBarrier ==
    /\ (~backupSequential /\ N >= 2 /\ (successes + failures > 0 \/ closed)) =>
          /\ pcMain \in {"tally", "returned"}
          /\ wg = 0
          /\ \A w \in Tasks : pc[w] = "exited"
    /\ pcMain \in {"tally", "returned"} => \A w \in W : ~InProgress(w)
    /\ pcMain = "tally" => successes + failures + Len(results) = N

\* C12 witness: in parallel mode one of two results has been tallied, after
\* both tasks finished
C12_Witness ==
    /\ ~backupSequential
    /\ N = 2
    /\ pcMain = "tally"
    /\ successes + failures = 1
    /\ \A w \in Tasks : pc[w] = "exited"

\* C13: the exit status is 0 when no server failed, 1 when some but not
\* all servers failed, and 2 when every server failed.
C13_ThreeOutcomes ==
    (pcMain = "returned" /\ N > 0) =>
        ExitCode(retErr) = (IF failures = 0 THEN 0 ELSE IF successes > 0 THEN 1 ELSE 2)

Returned(name) == call.name = name /\ call.phase = "done"

\* C14: in a run of Manager.Backup, a Connect or Download during which the
\* context was cancelled returns an error, and the run aborts: no further
\* step but Close, and no archive.
C14_CancelAbortsRun ==
    (run.mode = "backup" /\ call.cancelled /\ (Returned("Connect") \/ Returned("Download"))) =>
        /\ call.err # NoErr
        /\ run.pc \in {"close", "done"}
        /\ ~run.archive

\* C15: no call panics; List, Download or Upload called before any Connect
\* (for Nitrado: while the delegate is unset) returns "not connected" at
\* once, without a network operation.
C15_NotConnectedBeforeConnect ==
    /\ call.err # Panic
    /\ run.pc # "crashed"
    /\ (call.name \in {"List", "Download", "Upload"}
           /\ (call.fresh \/ (kind = "nitrado" /\ call.unset))) =>
          /\ call.phase = "done"
          /\ call.err = NotConnectedErr
          /\ call.net = 0

\* C15 witness: Download on a Nitrado connector whose Connect failed before
\* a delegate was built
C15_Witness ==
    /\ kind = "nitrado"
    /\ Returned("Download")
    /\ ~call.fresh
    /\ call.unset
    /\ call.err = NotConnectedErr

\* C16: no Close panics, and a Close that follows an earlier Close does not
\* act on a session that is released already.
C16_CloseIdempotent ==
    /\ call.err # Panic
    /\ (Returned("Close") /\ call.closedBefore) => call.rerel = 0

C20_SerializedWrites ==
    \A st \in {"out", "err"} : Cardinality({ w \in W : <<st, w>> \in writing }) <= 1

RECURSIVE SumBytes(_)
\* the bytes of the files in staging
SumBytes(st) == IF st = <<>> THEN 0 ELSE Head(st).bytes + SumBytes(Tail(st))

\* C21: on success the file count of the returned stats is the number of
\* files downloaded in the run, and the byte count is the number of bytes
\* written to staging through the progressWriter in the run.
C21_StatsAccumulated ==
    (bpc = "ret" /\ berr = None) =>
        /\ bstats.Files = Len(SelectSeq(staged, LAMBDA e : e.done))
        /\ bstats.Bytes = SumBytes(staged)

\* the indices of the reporter calls of the given kind
CallsOf(op) == { i \in 1..Len(calls) : calls[i].op = op }

\* the FileStart that the call at i follows
LastStart(i) == CHOOSE j \in CallsOf("FileStart") :
                    j <= i /\ \A k \in CallsOf("FileStart") : k <= i => k <= j

\* the index of the k-th FileStart
StartIdx(k) == CHOOSE i \in CallsOf("FileStart") :
                   Cardinality({ j \in CallsOf("FileStart") : j <= i }) = k

\* the FileProgress and FileDone calls that follow the k-th FileStart
Segment(k) == { i \in CallsOf("FileProgress") \cup CallsOf("FileDone") :
                  i > StartIdx(k) /\ LastStart(i) = StartIdx(k) }

\* the non-directory entries of a listing, in listing order
NonDir(l) == SelectSeq(l, LAMBDA f : ~f.IsDir)

\* C27: with a reporter set, Start is called once List has succeeded, once
\* and before every other call; FileStart is called for the non-directory
\* files in listing order, for all of them in a run that succeeds; every
\* FileProgress and FileDone names the file of the FileStart before it; the
\* FileProgress counts of a file never decrease and the last one is the
\* number of bytes written for the file; FileDone is called once for a file
\* whose download succeeded, after its FileProgress calls, and never for
\* another.
C27_ReporterCalls ==
    progress =>
        /\ (calls # <<>>) <=> (bpc \notin {"connect", "list"} /\ berr \notin {"create temp dir", "connect", "list"})
        /\ calls # <<>> => CallsOf("Start") = {1}
        /\ Cardinality(CallsOf("FileStart")) = Len(staged)
        /\ Len(staged) <= Len(NonDir(bfiles))
        /\ \A k \in 1..Len(staged) :
              /\ staged[k].Path = NonDir(bfiles)[k].Path
              /\ calls[StartIdx(k)].path = staged[k].Path
              /\ \A i \in Segment(k) : calls[i].path = staged[k].Path
              /\ \A i, j \in Segment(k) \cap CallsOf("FileProgress") :
                    i <= j => calls[i].n <= calls[j].n
              /\ \A i \in Segment(k) \cap CallsOf("FileProgress") :
                    (\A j \in Segment(k) \cap CallsOf("FileProgress") : j <= i) =>
                        calls[i].n = staged[k].bytes
              /\ Cardinality(Segment(k) \cap CallsOf("FileProgress")) = staged[k].writes
              /\ Cardinality(Segment(k) \cap CallsOf("FileDone")) = (IF staged[k].done THEN 1 ELSE 0)
              /\ \A i \in Segment(k) \cap CallsOf("FileDone") : \A j \in Segment(k) : j <= i
        /\ \A i \in CallsOf("FileProgress") \cup CallsOf("FileDone") :
              \E k \in 1..Len(staged) : i \in Segment(k)
        /\ (bpc = "ret" /\ berr = None) =>
              /\ Len(staged) = Len(NonDir(bfiles))
              /\ \A k \in 1..Len(staged) : staged[k].done

\* C27 witness: a run with a reporter has succeeded for two files, one of
\* them written in two chunks
C27_Witness ==
    /\ progress
    /\ bpc = "ret"
    /\ berr = None
    /\ Len(staged) = 2
    /\ staged[1].writes = 2
    /\ staged[1].bytes = 10
    /\ Cardinality(CallsOf("FileDone")) = 2

\* C28: whenever Backup returns after it called the reporter's Start, it has
\* called the reporter's Close exactly once.
C28_ReporterClosed ==
    (bpc = "ret" /\ CallsOf("Start") # {}) => Cardinality(CallsOf("Close")) = 1

\* the directory rule of an exclude pattern dir/ : the path is dir, or starts
\* with dir/ or with dir\
UnderDir(path, dir) ==
    \/ path = dir
    \/ HasPrefix(path, dir \o <<"/">>)
    \/ HasPrefix(path, dir \o <<"\\">>)

\* an exclude pattern matches the path: a pattern that ends in a slash by
\* the directory rule, any other as a glob for the base name or the full path
ExcludeMatches(path, pattern) ==
    IF pattern # <<>> /\ pattern[Len(pattern)] = "/"
    THEN UnderDir(path, SubSeq(pattern, 1, Len(pattern) - 1))
    ELSE Match(pattern, Base(path)) \/ Match(pattern, path)

\* C24 as stated: with the exclude list ["d/"] the matcher rejects p when p
\* is "d" or starts with "d/", and accepts every other p, whatever the
\* include list.
C24_DirRuleIndependentOfInclude ==
    (mResult.done /\ mExclude = << <<"d", "/">> >>) =>
        mResult.value = ~(mPath = <<"d">> \/ HasPrefix(mPath, <<"d", "/">>))

\* C24 amended: with the exclude list ["d/"] the matcher rejects p when p
\* is "d" or starts with "d/" or with "d\", whatever the include list; any
\* other p gets the result the include list alone gives it.
C24_DirRule ==
    (mResult.done /\ mExclude = << <<"d", "/">> >>) =>
        mResult.value = (~UnderDir(mPath, <<"d">>) /\ MatchesPatterns(mPath, mInclude, <<>>))

\* C24 witness: "d" itself is rejected under the include list ["*"]
C24_Witness ==
    /\ mResult.done
    /\ mExclude = << <<"d", "/">> >>
    /\ mInclude = << <<"*">> >>
    /\ mPath = <<"d">>
    /\ ~mResult.value

\* C25: a path that at least one exclude pattern matches is rejected, also
\* when an include pattern matches it.
C25_ExclusionFirst ==
    (mResult.done /\ \E i \in 1..Len(mExclude) : ExcludeMatches(mPath, mExclude[i])) =>
        ~mResult.value

\* C25 witness: "x" is rejected under include ["*"] and exclude ["*x"]
C25_Witness ==
    /\ mResult.done
    /\ mInclude = << <<"*">> >>
    /\ mExclude = << <<"*", "x">> >>
    /\ mPath = <<"x">>
    /\ ~mResult.value

RECURSIVE TreeFiles(_, _)
\* the entries of a remote tree that are not directories, each with its
\* path from the root; "." and ".." are no entries of their own
TreeFiles(tree, prefix) ==
    IF tree = <<>> THEN {}
    ELSE LET e == Head(tree)
             p == IF prefix = <<>> THEN e.Name ELSE prefix \o <<"/">> \o e.Name
         IN  (IF e.Name \in {<<".">>, <<".", ".">>} THEN {}
              ELSE IF e.IsDir THEN TreeFiles(e.Kids, p)
              ELSE {[Path |-> p, Size |-> e.Size, IsDir |-> FALSE]})
             \cup TreeFiles(Tail(tree), prefix)

\* the elements of a sequence
Range(q) == { q[i] : i \in 1..Len(q) }

\* C22: a List that returns without error returns exactly the entries of
\* the tree below the remote root, directories at every depth gone into,
\* that are not directories and whose path from the root satisfies the
\* pattern matcher with the include and exclude lists, each entry once; and
\* List does not panic.
C22_ListIsFilteredWalk ==
    listing.done =>
        /\ listing.err # SlicePanic
        /\ listing.err = NoErr =>
              /\ Range(listing.files) =
                    { f \in TreeFiles(remote, <<>>) :
                        MatchesPatterns(f.Path, lscfg.Include, lscfg.Exclude) }
              /\ Cardinality(Range(listing.files)) = Len(listing.files)

\* what the configuration supplies for SFTP authentication
KeySupplied == kcfg.KeyFile # ""
PasswordSupplied == kcfg.Password

\* C23 as stated: an SFTP Connect fails unless exactly one of key file and
\* password is supplied.
C23_ExactlyOneAuthMethod ==
    (kind = "sftp" /\ Returned("Connect") /\ (KeySupplied <=> PasswordSupplied)) =>
        call.err # NoErr

\* C23 amended: an SFTP Connect with neither a key file nor a password fails
\* before it dials; otherwise it offers the key first, then the password if
\* there is one too, and with both supplied it does not fail for that; a key
\* file that cannot be read or parsed fails Connect before it dials, with or
\* without a password.
C23_AtLeastOneAuthMethod ==
    (kind = "sftp" /\ call.name = "Connect") =>
        /\ (~KeySupplied /\ ~PasswordSupplied) =>
              /\ call.phase = "done"
              /\ call.err = <<"no authentication method provided (need password or key_file)">>
              /\ call.net = 0
        /\ kcfg.KeyFile \in {"unreadable", "unparsable"} =>
              /\ call.phase = "done"
              /\ call.err \in {<<"failed to read key file">>, <<"failed to parse key file">>}
              /\ call.net = 0
        /\ (kcfg.KeyFile \in {"", "key"} /\ (KeySupplied \/ PasswordSupplied)) =>
              /\ call.auth = (IF KeySupplied THEN <<"publickey">> ELSE <<>>)
                                \o (IF PasswordSupplied THEN <<"password">> ELSE <<>>)
              /\ call.phase = "done" => call.net > 0
              /\ call.err \in {NoErr, <<"failed to connect to SSH">>,
                               <<"failed to create SFTP client">>}

\* C23 witness: with a key file and a password both supplied, Connect has
\* succeeded, the key offered first
C23_Witness ==
    /\ kind = "sftp"
    /\ Returned("Connect")
    /\ kcfg.KeyFile = "key"
    /\ kcfg.Password
    /\ call.auth = <<"publickey", "password">>
    /\ call.err = NoErr

\* C29: when Backup returns an error, no archive file that this run created
\* is left: a CreateArchive that fails during the walk leaves no file at its
\* destination path.
C29_NoPartialArchive ==
    \A w \in W : (pc[w] = "ret" /\ bret[w].err # None) => ~arch[w].created

\* in parallel mode: a task whose runOne has returned finds a free slot in
\* the channel; the channel holds one result of every task that has sent;
\* it is closed only when every task has finished, and before the tally
\* takes anything from it
C30_Delivery ==
    (~backupSequential /\ N >= 2) =>
        /\ \A w \in Tasks : pc[w] = "ret" => Len(results) < N
        /\ pcMain = "spawn" =>
              Len(results) = Cardinality({ w \in Tasks : pc[w] \in {"sent", "exited"} })
        /\ closed => \A w \in Tasks : pc[w] = "exited"
        /\ pcMain = "tally" => closed /\ successes + failures + Len(results) = N
        /\ successes + failures > 0 => closed

\* C30: in parallel mode no task blocks when it delivers its result, each
\* task delivers one result, the channel is closed after all tasks have
\* finished and before the tally; and once every runOne has returned,
\* runBackup returns.
C30_NoBlockedWorker ==
    /\ []C30_Delivery
    /\ (pcMain = "spawn" /\ N >= 2 /\ \A w \in Tasks : pc[w] \in {"ret", "sent", "exited"})
          ~> (pcMain = "returned")

\* C30 witness: both tasks of a parallel run have sent their results, and
\* runBackup has not yet returned from wg.Wait()
C30_Witness ==
    /\ ~backupSequential
    /\ N = 2
    /\ pcMain = "spawn"
    /\ Len(results) = 2
    /\ wg > 0

====
